---- MODULE Spec2Model ----
(***************************************************************************)
(* A model of the two command-line programs of binf-scripts:               *)
(*   ncbi-assembly.py (Program A): parse_filters, download_report,         *)
(*                                 download_assembly and the main script;  *)
(*   ncbi-download.py (Program B): the search / fetch loop.                *)
(*                                                                         *)
(* A Python str is a sequence of one-character strings, so that split,     *)
(* lower, the "in" substring test, lstrip, startswith and replace are      *)
(* computed character by character as the interpreter computes them        *)
(* (ASCII letters only for lower).                                         *)
(***************************************************************************)
EXTENDS Integers, Sequences, FiniteSets, TLC

----------------------------------------------------------------------------
(* Python str operations                                                   *)

EQ   == "="
SEMI == ";"
TAB  == "\t"
NL   == "\n"

UPPER == <<"A","B","C","D","E","F","G","H","I","J","K","L","M",
           "N","O","P","Q","R","S","T","U","V","W","X","Y","Z">>
LOWER == <<"a","b","c","d","e","f","g","h","i","j","k","l","m",
           "n","o","p","q","r","s","t","u","v","w","x","y","z">>

\* str.lower() of one character
LowerChar(c) ==
  IF \E i \in DOMAIN UPPER : UPPER[i] = c
    THEN LOWER[CHOOSE i \in DOMAIN UPPER : UPPER[i] = c]
    ELSE c

\* s.lower()
Lower(s) == [i \in DOMAIN s |-> LowerChar(s[i])]

\* a in b, for two str
Contains(b, a) ==
  \E i \in 0..(Len(b) - Len(a)) : SubSeq(b, i + 1, i + Len(a)) = a

\* s.startswith(p)
StartsWith(s, p) == Len(s) >= Len(p) /\ SubSeq(s, 1, Len(p)) = p

\* s.lstrip(chars): drop the leading characters that are in chars
LStrip(s, chars) ==
  LET keep == {i \in 1..Len(s) : s[i] \notin chars}
  IN  IF keep = {} THEN << >>
      ELSE SubSeq(s, CHOOSE i \in keep : \A j \in keep : i <= j, Len(s))

\* the positions of the character sep in s, in increasing order
Positions(s, sep) ==
  LET idx == {i \in 1..Len(s) : s[i] = sep}
  IN  [k \in 1..Cardinality(idx) |->
         CHOOSE i \in idx : Cardinality({j \in idx : j < i}) = k - 1]

\* s.split(sep) for a one-character sep: one more piece than separators,
\* empty pieces kept
Split(s, sep) ==
  LET pos == Positions(s, sep)
      n   == Len(pos)
  IN  [k \in 1..(n + 1) |->
         SubSeq(s, IF k = 1 THEN 1 ELSE pos[k - 1] + 1,
                   IF k = n + 1 THEN Len(s) ELSE pos[k] - 1)]

RECURSIVE Join(_, _)
\* sep.join(parts)
Join(parts, sep) ==
  IF Len(parts) = 0 THEN << >>
  ELSE IF Len(parts) = 1 THEN parts[1]
  ELSE parts[1] \o sep \o Join(Tail(parts), sep)

----------------------------------------------------------------------------
(* ncbi-assembly.py: module constants                                      *)

FILTER_COLUMNS ==
  << <<"a","s","s","e","m","b","l","y","_","a","c","c","e","s","s","i","o","n">>,
     <<"b","i","o","p","r","o","j","e","c","t">>,
     <<"b","i","o","s","a","m","p","l","e">>,
     <<"w","g","s","_","m","a","s","t","e","r">>,
     <<"r","e","f","s","e","q","_","c","a","t","e","g","o","r","y">>,
     <<"t","a","x","i","d">>,
     <<"s","p","e","c","i","e","s","_","t","a","x","i","d">>,
     <<"o","r","g","a","n","i","s","m","_","n","a","m","e">>,
     <<"i","n","f","r","a","s","p","e","c","i","f","i","c","_","n","a","m","e">>,
     <<"i","s","o","l","a","t","e">>,
     <<"v","e","r","s","i","o","n","_","s","t","a","t","u","s">>,
     <<"a","s","s","e","m","b","l","y","_","l","e","v","e","l">>,
     <<"r","e","l","e","a","s","e","_","t","y","p","e">>,
     <<"g","e","n","o","m","e","_","r","e","p">>,
     <<"s","e","q","_","r","e","l","_","d","a","t","e">>,
     <<"a","s","m","_","n","a","m","e">>,
     <<"s","u","b","m","i","t","t","e","r">>,
     <<"g","b","r","s","_","p","a","i","r","e","d","_","a","s","m">>,
     <<"p","a","i","r","e","d","_","a","s","m","_","c","o","m","p">>,
     <<"f","t","p","_","p","a","t","h">>,
     <<"e","x","c","l","u","d","e","d","_","f","r","o","m","_","r","e","f","s","e","q">>,
     <<"r","e","l","a","t","i","o","n","_","t","o","_","t","y","p","e","_","m","a","t","e","r","i","a","l">> >>

assembly_accession == FILTER_COLUMNS[1]
taxid              == FILTER_COLUMNS[6]
assembly_level     == FILTER_COLUMNS[12]
ftp_path           == FILTER_COLUMNS[20]

\* 'all', the value that lets every assembly level pass (line 110)
V_all == <<"a","l","l">>

\* 'ERROR: INVALID COLUMN NAME, OR NO VALUE GIVEN'
ERR_NO_VALUE == <<"E","R","R","O","R",":"," ","I","N","V","A","L","I","D"," ","C","O","L","U","M","N"," ","N","A","M","E",","," ","O","R"," ","N","O"," ","V","A","L","U","E"," ","G","I","V","E","N">>

\* ' <-- ERROR: INVALID COLUMN NAME'
ERR_COLUMN_SUFFIX == <<" ","<","-","-"," ","E","R","R","O","R",":"," ","I","N","V","A","L","I","D"," ","C","O","L","U","M","N"," ","N","A","M","E">>

----------------------------------------------------------------------------
(* collections.OrderedDict: a sequence of [k, v] entries; assigning to a   *)
(* key that is present replaces its value where it stands, assigning to a  *)
(* new key appends.                                                        *)

Keys(d) == {d[i].k : i \in DOMAIN d}

Get(d, key) == d[CHOOSE i \in DOMAIN d : d[i].k = key].v

\* SetItem with a slip: a key that is present keeps its first value
SetItem_KeepFirst(d, key, value) ==
  IF key \in Keys(d) THEN d ELSE Append(d, [k |-> key, v |-> value])

SetItem(d, key, value) ==
  IF key \in Keys(d)
    THEN [i \in DOMAIN d |-> IF d[i].k = key THEN [k |-> key, v |-> value] ELSE d[i]]
    ELSE Append(d, [k |-> key, v |-> value])

----------------------------------------------------------------------------
(* parse_filters                                                           *)

InFilterColumns(column) == \E i \in DOMAIN FILTER_COLUMNS : FILTER_COLUMNS[i] = column

\* One pass of the loop body for token f.  st = [parsed_filter, invalid,
\* raised]; raised records the ValueError of the two-name unpacking of
\* f.split("=") when the token holds more than one "=".
ParseToken(st, f) ==
  IF st.raised THEN st
  ELSE IF ~Contains(f, <<EQ>>)
    THEN [st EXCEPT !.invalid = TRUE,
                    !.parsed_filter = SetItem(@, f, ERR_NO_VALUE)]
  ELSE LET parts == Split(f, EQ)
       IN  IF Len(parts) # 2
             THEN [st EXCEPT !.raised = TRUE]
             ELSE LET column == parts[1]
                      value  == parts[2]
                  IN  IF InFilterColumns(column)
                        THEN [st EXCEPT !.parsed_filter = SetItem(@, column, value)]
                        ELSE [st EXCEPT !.invalid = TRUE,
                                        !.parsed_filter =
                                           SetItem(@, column, value \o ERR_COLUMN_SUFFIX)]

RECURSIVE ParseLoop(_, _)
ParseLoop(st, tokens) ==
  IF Len(tokens) = 0 THEN st
  ELSE ParseLoop(ParseToken(st, Head(tokens)), Tail(tokens))

\* parse_filters(input_filters): [parsed_filter, invalid], or raised
parse_filters(s) ==
  ParseLoop([parsed_filter |-> << >>, invalid |-> FALSE, raised |-> FALSE],
            Split(s, SEMI))

----------------------------------------------------------------------------
(* download_report                                                         *)

\* '# assembly_accession'
HEADER_PREFIX == <<"#"," ","a","s","s","e","m","b","l","y","_","a","c","c","e","s","s","i","o","n">>

\* dict(zip(col_names, values)): zip stops at the shorter of the two, and a
\* name met twice keeps the value of its last position
Zip(col_names, values) ==
  LET n == IF Len(col_names) < Len(values) THEN Len(col_names) ELSE Len(values)
  IN  [c \in {col_names[i] : i \in 1..n} |->
         values[CHOOSE i \in 1..n :
                   col_names[i] = c /\ \A j \in 1..n : col_names[j] = c => j <= i]]

\* the test of one filter entry on one row (lines 108-113); the row holds
\* the column
EntryPasses(row_values, column, value) ==
  \/ Contains(Lower(row_values[column]), Lower(value))
  \/ column = assembly_level /\ value = V_all

\* One pass of the loop body for one line.  st = [col_names, has_names,
\* report, raised]; raised records the KeyError of row_values[column] for a
\* filter column the row does not hold.
ReportLine(st, line, column_filters) ==
  IF st.raised THEN st
  ELSE IF StartsWith(line, HEADER_PREFIX)
    THEN [st EXCEPT !.col_names = Split(LStrip(line, {"#", " "}), TAB),
                    !.has_names = TRUE]
  ELSE IF st.has_names /\ Len(st.col_names) > 0 /\ Len(line) > 0
    THEN LET row_values == Zip(st.col_names, Split(line, TAB))
         IN  IF \E e \in DOMAIN column_filters :
                   column_filters[e].k \notin DOMAIN row_values
               THEN [st EXCEPT !.raised = TRUE]
               ELSE IF \A e \in DOMAIN column_filters :
                         EntryPasses(row_values, column_filters[e].k,
                                     column_filters[e].v)
                 THEN [st EXCEPT !.report = Append(@, row_values)]
                 ELSE st
  ELSE st

RECURSIVE ReportLoop(_, _, _)
ReportLoop(st, lines, column_filters) ==
  IF Len(lines) = 0 THEN st
  ELSE ReportLoop(ReportLine(st, Head(lines), column_filters),
                  Tail(lines), column_filters)

\* download_report(column_filters), text being r.text of the GET:
\* the report, or raised
download_report(column_filters, text) ==
  ReportLoop([col_names |-> << >>, has_names |-> FALSE,
              report |-> << >>, raised |-> FALSE],
             Split(text, NL), column_filters)

----------------------------------------------------------------------------
(* State                                                                   *)

VARIABLES
  \* a call of parse_filters on its own
  input_filters,   \* the argument
  parse_pc,        \* "call" | "returned" | "raised"
  parse_out,       \* [parsed_filter, invalid, raised] once the call is over
  \* a call of download_report on its own
  report_text,     \* r.text, the body of the GET
  column_filters,  \* the argument
  report_pc,       \* "call" | "returned" | "raised"
  report_out,      \* the returned list of rows
  \* a run of ncbi-assembly.py (Program A)
  argv,            \* the command line, as argparse reads it
  remote,          \* which report the report URL serves: a name of RemoteReports
  a_pc,            \* "start" | "report" | "loop" | "sleep" | "exited" | "idle"
  filters,         \* the mapping parse_filters returned, then handed to download_report
  report,          \* the rows download_report returned
  a_i,             \* 1 + the number of rows the loop has finished
  a_fs,            \* [dirs, files]: the directories and files that exist
  a_fs0,           \* a_fs as the run found it
  a_http,          \* the GET requests sent, in order
  a_events,        \* the rsync runs and the sleeps, in order
  a_exit,          \* the exit status, once a_pc = "exited"
  a_error,         \* the uncaught exception that ended the run, or ""
  \* runs of ncbi-download.py (Program B), one after the other, on one OUTPUT
  b_run,           \* the number of runs started
  b_pc,            \* "start" | "loop" | "fetch" | "done" | "aborted" | "idle"
  b_dry,           \* args.dry_run of the current run
  b_idlist,        \* esearch['IdList'] of the current run
  b_i,             \* 1 + the number of IDs the loop has finished
  accessions,      \* the captions appended so far
  b_fs,            \* [dirs, files]: the directories and files that exist
  b_fs_start,      \* b_fs as the current run found it
  b_efetch,        \* the IDs efetch was called for in the current run
  b_res,           \* "Fetched" or "Skipped", per ID the current run finished
  b_prev           \* the run before the current one: [ran, completed, dry, idlist]

parse_vars  == <<input_filters, parse_pc, parse_out>>
report_vars == <<report_text, column_filters, report_pc, report_out>>
a_vars      == <<argv, remote, a_pc, filters, report, a_i, a_fs, a_fs0,
                 a_http, a_events, a_exit, a_error>>

b_vars      == <<b_run, b_pc, b_dry, b_idlist, b_i, accessions, b_fs,
                 b_fs_start, b_efetch, b_res, b_prev>>

vars == <<parse_vars, report_vars, a_vars, b_vars>>

----------------------------------------------------------------------------
(* Inputs of parse_filters                                                 *)

MaxTokens == 3

V_1280 == <<"1","2","8","0">>
K_foo  == <<"f","o","o">>

KeyPool   == {taxid, assembly_level, K_foo, << >>}
ValuePool == {V_1280, V_all}

\* KEY, KEY=VALUE and two tokens with a second "="
TokenPool ==
  KeyPool
  \cup {k \o <<EQ>> \o v : k \in KeyPool, v \in ValuePool}
  \cup {taxid \o <<EQ>> \o V_1280 \o <<EQ>> \o V_all,
        K_foo \o <<EQ>> \o V_all \o <<EQ>> \o V_1280}

FilterStrings ==
  {Join(ts, <<SEMI>>) : ts \in UNION {[1..n -> TokenPool] : n \in 1..MaxTokens}}

NoResult == [parsed_filter |-> << >>, invalid |-> FALSE, raised |-> FALSE]

ParseInit ==
  /\ input_filters \in FilterStrings
  /\ parse_pc = "call"
  /\ parse_out = NoResult

ParseIdle ==
  /\ input_filters = << >>
  /\ parse_pc = "idle"
  /\ parse_out = NoResult

\* the call of parse_filters, to its return or to the exception leaving it
CallParseFilters ==
  /\ parse_pc = "call"
  /\ parse_out' = parse_filters(input_filters)
  /\ parse_pc' = IF parse_out'.raised THEN "raised" ELSE "returned"
  /\ UNCHANGED <<input_filters, report_vars, a_vars, b_vars>>

----------------------------------------------------------------------------
(* Inputs of download_report                                               *)

MaxLines == 4

\* a report header of three columns, and lines that may follow or precede it
L_header  == HEADER_PREFIX \o <<TAB>> \o taxid \o <<TAB>> \o assembly_level
L_comment == <<"#"," "," "," ","S","e","e"," ","R","E","A","D","M","E">>
L_row1    == <<"G","C","F","_","1",TAB,"1","2","8","0",TAB,"C","o","m","p","l","e","t","e"," ","G","e","n","o","m","e">>
L_row2    == <<"G","C","F","_","2",TAB,"1","1","2","8","0",TAB,"C","o","n","t","i","g">>
L_row3    == <<"G","C","F","_","3",TAB,"5","6","2",TAB,"S","c","a","f","f","o","l","d">>
L_short   == <<"G","C","F","_","4",TAB,"1","2","8","0">>

LinePool == {L_header, L_comment, L_row1, L_row2, L_row3, L_short, << >>}

ReportTexts ==
  {Join(ls, <<NL>>) : ls \in UNION {[1..n -> LinePool] : n \in 1..MaxLines}}

Entry(key, value) == [k |-> key, v |-> value]

FilterPool ==
  { << >>,
    <<Entry(assembly_level, V_all)>>,
    <<Entry(assembly_level, <<"c","o","m","p","l","e","t","e">>)>>,
    <<Entry(taxid, V_1280), Entry(assembly_level, V_all)>>,
    <<Entry(taxid, V_1280), Entry(assembly_level, <<"C","O","N","T","I","G">>)>>,
    <<Entry(assembly_accession, <<"g","c","f","_">>)>> }

ReportInit ==
  /\ report_text \in ReportTexts
  /\ column_filters \in FilterPool
  /\ report_pc = "call"
  /\ report_out = << >>

ReportIdle ==
  /\ report_text = << >>
  /\ column_filters = << >>
  /\ report_pc = "idle"
  /\ report_out = << >>

\* the call of download_report, to its return or to the exception leaving it
CallDownloadReport ==
  /\ report_pc = "call"
  /\ LET st == download_report(column_filters, report_text)
     IN  /\ report_pc' = IF st.raised THEN "raised" ELSE "returned"
         /\ report_out' = IF st.raised THEN << >> ELSE st.report
  /\ UNCHANGED <<report_text, column_filters, parse_vars, a_vars, b_vars>>

----------------------------------------------------------------------------
(* ncbi-assembly.py: download_assembly and the main script                 *)

RECURSIVE Replace(_, _, _)
\* s.replace(old, new), old not empty
Replace(s, old, new) ==
  IF Len(s) < Len(old) THEN s
  ELSE IF SubSeq(s, 1, Len(old)) = old
    THEN new \o Replace(SubSeq(s, Len(old) + 1, Len(s)), old, new)
    ELSE <<Head(s)>> \o Replace(Tail(s), old, new)

FTP_SCHEME   == <<"f","t","p",":","/","/">>
RSYNC_SCHEME == <<"r","s","y","n","c",":","/","/">>
SLASH        == "/"

\* '/assembly_summary.txt'
SUMMARY_NAME == <<"/","a","s","s","e","m","b","l","y","_","s","u","m","m","a","r","y",".","t","x","t">>

\* the choices of --assembly_level, and its default
AssemblyLevelChoices ==
  { <<"c","o","m","p","l","e","t","e">>,
    <<"c","h","r","o","m","o","s","o","m","e">>,
    <<"s","c","a","f","f","o","l","d">>,
    <<"c","o","n","t","i","g">>,
    V_all }

DefaultAssemblyLevel == <<"c","o","m","p","l","e","t","e">>

\* the default of --delay
DefaultDelay == 3

\* args.assembly_level: the flag's value, the default without the flag
ArgsAssemblyLevel(av) ==
  IF av.assembly_level = << >> THEN DefaultAssemblyLevel ELSE av.assembly_level

\* the exit codes rsync may end with: 0, and 23 for a failed transfer
RsyncExitCodes == {0, 23}

\* download_assembly(assembly_path, output_path): one rsync run, awaited;
\* its exit code is read by nobody
download_assembly(events, assembly_path, output_path, rc) ==
  Append(events, [op |-> "rsync", src |-> assembly_path,
                  dst |-> output_path, rc |-> rc])

\* len(sys.argv) == 1: print the help, exit 0 (lines 194-196)
PrintHelp ==
  /\ a_pc = "start"
  /\ ~argv.given
  /\ a_pc' = "exited"
  /\ a_exit' = 0
  /\ UNCHANGED <<argv, remote, filters, report, a_i, a_fs, a_fs0, a_http,
                 a_events, a_error, parse_vars, report_vars, b_vars>>

\* --report_readme: GET the README, print it, exit 0 (lines 199-201)
ReportReadme ==
  /\ a_pc = "start"
  /\ argv.given
  /\ argv.report_readme
  /\ a_http' = Append(a_http, "README_assembly_summary.txt")
  /\ a_pc' = "exited"
  /\ a_exit' = 0
  /\ UNCHANGED <<argv, remote, filters, report, a_i, a_fs, a_fs0,
                 a_events, a_error, parse_vars, report_vars, b_vars>>

\* --filter_columns: print the sorted columns, exit 0 (lines 202-204)
FilterColumns ==
  /\ a_pc = "start"
  /\ argv.given
  /\ ~argv.report_readme
  /\ argv.filter_columns
  /\ a_pc' = "exited"
  /\ a_exit' = 0
  /\ UNCHANGED <<argv, remote, filters, report, a_i, a_fs, a_fs0, a_http,
                 a_events, a_error, parse_vars, report_vars, b_vars>>

\* ParseFilter with a slip: --validate_filter is looked at before the
\* invalid flag
ParseFilter_ValidateFirst ==
  /\ a_pc = "start"
  /\ argv.given
  /\ ~argv.report_readme
  /\ ~argv.filter_columns
  /\ LET res == parse_filters(argv.filter)
     IN  IF res.raised
           THEN /\ a_pc' = "exited" /\ a_exit' = 1 /\ a_error' = "ValueError"
                /\ UNCHANGED filters
         ELSE IF argv.validate_filter
           THEN /\ a_pc' = "exited" /\ a_exit' = 0
                /\ filters' = res.parsed_filter
                /\ UNCHANGED a_error
         ELSE IF res.invalid
           THEN /\ a_pc' = "exited" /\ a_exit' = 1
                /\ filters' = res.parsed_filter
                /\ UNCHANGED a_error
         ELSE /\ a_pc' = "report"
              /\ filters' = res.parsed_filter
              /\ UNCHANGED <<a_exit, a_error>>
  /\ UNCHANGED <<argv, remote, report, a_i, a_fs, a_fs0, a_http,
                 a_events, parse_vars, report_vars, b_vars>>

\* lines 206-214: parse FILTER; an invalid filter exits 1, --validate_filter
\* exits 0, the ValueError of parse_filters ends the run with status 1
ParseFilter ==
  /\ a_pc = "start"
  /\ argv.given
  /\ ~argv.report_readme
  /\ ~argv.filter_columns
  /\ LET res == parse_filters(argv.filter)
     IN  IF res.raised
           THEN /\ a_pc' = "exited" /\ a_exit' = 1 /\ a_error' = "ValueError"
                /\ UNCHANGED filters
         ELSE IF res.invalid
           THEN /\ a_pc' = "exited" /\ a_exit' = 1
                /\ filters' = res.parsed_filter
                /\ UNCHANGED a_error
         ELSE IF argv.validate_filter
           THEN /\ a_pc' = "exited" /\ a_exit' = 0
                /\ filters' = res.parsed_filter
                /\ UNCHANGED a_error
         ELSE /\ a_pc' = "report"
              /\ filters' = res.parsed_filter
              /\ UNCHANGED <<a_exit, a_error>>
  /\ UNCHANGED <<argv, remote, report, a_i, a_fs, a_fs0, a_http,
                 a_events, parse_vars, report_vars, b_vars>>

\* The report URL serves one of two reports of the 22 columns.
\* one report line: every column "na" but the four given
ReportRow(accession, tax, level, path) ==
  Join([c \in DOMAIN FILTER_COLUMNS |->
          IF FILTER_COLUMNS[c] = assembly_accession THEN accession
          ELSE IF FILTER_COLUMNS[c] = taxid THEN tax
          ELSE IF FILTER_COLUMNS[c] = assembly_level THEN level
          ELSE IF FILTER_COLUMNS[c] = ftp_path THEN path
          ELSE <<"n", "a">>],
       <<TAB>>)

REPORT_COMMENT == <<"#"," "," "," ","S","e","e"," ","R","E","A","D","M","E">>
REPORT_HEADER  == <<"#", " ">> \o Join(FILTER_COLUMNS, <<TAB>>)

\* three rows, two of them with a taxid that contains 1280
Report3 ==
  Join(<<REPORT_COMMENT, REPORT_HEADER,
         ReportRow(<<"G","C","F","_","1">>, V_1280, <<"C","o","m","p","l","e","t","e"," ","G","e","n","o","m","e">>, <<"f","t","p",":","/","/","h","/","a">>),
         ReportRow(<<"G","C","F","_","2">>, <<"5","6","2">>, <<"C","o","n","t","i","g">>, <<"f","t","p",":","/","/","h","/","b">>),
         ReportRow(<<"G","C","F","_","3">>, <<"1","1","2","8","0">>, <<"S","c","a","f","f","o","l","d">>, <<"f","t","p",":","/","/","h","/","c">>),
         << >> >>, <<NL>>)

\* no row at all
Report0 == Join(<<REPORT_COMMENT, REPORT_HEADER, << >> >>, <<NL>>)

RemoteReports == {"three rows", "no rows"}

\* r.text of the GET of the report
RemoteText(name) == IF name = "three rows" THEN Report3 ELSE Report0

\* lines 216-219: set filters['assembly_level'], GET and filter the report
DownloadReport ==
  /\ a_pc = "report"
  /\ filters' = SetItem(filters, assembly_level, ArgsAssemblyLevel(argv))
  /\ a_http' = Append(a_http, "assembly_summary.txt")
  /\ LET st == download_report(filters', RemoteText(remote))
     IN  IF st.raised
           THEN /\ a_pc' = "exited" /\ a_exit' = 1 /\ a_error' = "KeyError"
                /\ UNCHANGED <<report, a_i>>
           ELSE /\ a_pc' = "loop" /\ report' = st.report /\ a_i' = 1
                /\ UNCHANGED <<a_exit, a_error>>
  /\ UNCHANGED <<argv, remote, a_fs, a_fs0, a_events, parse_vars, report_vars, b_vars>>

\* lines 221-223 under --dry_run: the row is printed and nothing else
DryRunRow ==
  /\ a_pc = "loop"
  /\ a_i <= Len(report)
  /\ argv.dry_run
  /\ a_i' = a_i + 1
  /\ UNCHANGED <<argv, remote, a_pc, filters, report, a_fs, a_fs0, a_http,
                 a_events, a_exit, a_error, parse_vars, report_vars, b_vars>>

\* MirrorRow with a slip: an rsync run that exits non-zero ends the run, as
\* subprocess.check_call would
MirrorRow_StopOnFailure ==
  /\ a_pc = "loop"
  /\ a_i <= Len(report)
  /\ ~argv.dry_run
  /\ LET row           == report[a_i]
         output_dir    == argv.outdir \o <<SLASH>> \o row[assembly_accession]
         assembly_path == Replace(row[ftp_path], FTP_SCHEME, RSYNC_SCHEME)
     IN  /\ a_fs' = [a_fs EXCEPT !.dirs = @ \cup {argv.outdir, output_dir}]
         /\ \E rc \in RsyncExitCodes :
               /\ a_events' = download_assembly(a_events, assembly_path, output_dir, rc)
               /\ IF rc = 0
                    THEN a_pc' = "sleep" /\ UNCHANGED <<a_exit, a_error>>
                    ELSE /\ a_pc' = "exited" /\ a_exit' = 1
                         /\ a_error' = "CalledProcessError"
  /\ UNCHANGED <<argv, remote, filters, report, a_i, a_fs0, a_http,
                 parse_vars, report_vars, b_vars>>

\* lines 224-229: make the directories, run rsync on the row's ftp_path
MirrorRow ==
  /\ a_pc = "loop"
  /\ a_i <= Len(report)
  /\ ~argv.dry_run
  /\ LET row           == report[a_i]
         output_dir    == argv.outdir \o <<SLASH>> \o row[assembly_accession]
         assembly_path == Replace(row[ftp_path], FTP_SCHEME, RSYNC_SCHEME)
     IN  /\ a_fs' = [a_fs EXCEPT !.dirs = @ \cup {argv.outdir, output_dir}]
         /\ \E rc \in RsyncExitCodes :
               a_events' = download_assembly(a_events, assembly_path, output_dir, rc)
  /\ a_pc' = "sleep"
  /\ UNCHANGED <<argv, remote, filters, report, a_i, a_fs0, a_http,
                 a_exit, a_error, parse_vars, report_vars, b_vars>>

\* line 230: time.sleep(args.delay), then the next row
SleepRow ==
  /\ a_pc = "sleep"
  /\ a_events' = Append(a_events, [op |-> "sleep", secs |-> argv.delay])
  /\ a_i' = a_i + 1
  /\ a_pc' = "loop"
  /\ UNCHANGED <<argv, remote, filters, report, a_fs, a_fs0, a_http,
                 a_exit, a_error, parse_vars, report_vars, b_vars>>

\* the text lines 235-239 write: the fixed header, then one line per row
SummaryText(rows) ==
  Join(FILTER_COLUMNS, <<TAB>>) \o <<NL>>
  \o Join([r \in DOMAIN rows |->
             Join([c \in DOMAIN FILTER_COLUMNS |-> rows[r][FILTER_COLUMNS[c]]],
                  <<TAB>>) \o <<NL>>],
          << >>)

\* the row holds every column of FILTER_COLUMNS
RowComplete(row) ==
  \A c \in DOMAIN FILTER_COLUMNS : FILTER_COLUMNS[c] \in DOMAIN row

\* lines 232-239: open <outdir>/assembly_summary.txt for writing and write
\* it; open raises FileNotFoundError when the directory does not exist, and
\* row[c] raises KeyError at the first row that lacks a column, with the
\* lines before it written
WriteSummary ==
  /\ a_pc = "loop"
  /\ a_i > Len(report)
  /\ LET output == argv.outdir \o SUMMARY_NAME
         bad    == {r \in DOMAIN report : ~RowComplete(report[r])}
         upto   == IF bad = {} THEN Len(report)
                   ELSE (CHOOSE r \in bad : \A q \in bad : r <= q) - 1
     IN  IF argv.outdir \in a_fs.dirs
           THEN /\ a_fs' = [a_fs EXCEPT !.files =
                              [f \in DOMAIN @ \cup {output} |->
                                 IF f = output THEN SummaryText(SubSeq(report, 1, upto))
                                 ELSE @[f]]]
                /\ a_exit' = IF bad = {} THEN 0 ELSE 1
                /\ a_error' = IF bad = {} THEN a_error ELSE "KeyError"
           ELSE /\ a_exit' = 1
                /\ a_error' = "FileNotFoundError"
                /\ UNCHANGED a_fs
  /\ a_pc' = "exited"
  /\ UNCHANGED <<argv, remote, filters, report, a_i, a_fs0, a_http,
                 a_events, parse_vars, report_vars, b_vars>>

NextA ==
  \/ PrintHelp
  \/ ReportReadme
  \/ FilterColumns
  \/ ParseFilter
  \/ DownloadReport
  \/ DryRunRow
  \/ MirrorRow
  \/ SleepRow
  \/ WriteSummary

----------------------------------------------------------------------------
(* Inputs of Program A                                                     *)

OUTDIR == <<"o","u","t">>

\* the FILTER arguments tried
ArgFilters ==
  { taxid \o <<EQ>> \o V_1280 \o <<SEMI>> \o assembly_level \o <<EQ>> \o V_all,
    taxid \o <<EQ>> \o V_1280,
    assembly_level \o <<EQ>> \o <<"c","o","n","t","i","g">>,
    taxid,
    K_foo \o <<EQ>> \o V_1280,
    taxid \o <<SEMI>> \o taxid \o <<EQ>> \o V_1280,
    taxid \o <<EQ>> \o V_1280 \o <<EQ>> \o V_all }

\* the --delay values tried
ArgDelays == {0, DefaultDelay}

NoArgv ==
  [given |-> FALSE, filter |-> << >>, outdir |-> << >>, assembly_level |-> << >>,
   delay |-> DefaultDelay, filter_columns |-> FALSE, report_readme |-> FALSE,
   validate_filter |-> FALSE, dry_run |-> FALSE]

\* assembly_level << >> stands for a command line without --assembly_level
Argvs ==
  {NoArgv} \cup
  [given : {TRUE}, filter : ArgFilters, outdir : {OUTDIR},
   assembly_level : AssemblyLevelChoices \cup {<< >>},
   delay : ArgDelays, filter_columns : BOOLEAN, report_readme : BOOLEAN,
   validate_filter : BOOLEAN, dry_run : BOOLEAN]

EmptyFs == [dirs |-> {}, files |-> << >>]

\* the output directory exists, empty, or does not exist
InitialFs == {EmptyFs, [EmptyFs EXCEPT !.dirs = {OUTDIR}]}

AInit ==
  /\ argv \in Argvs
  /\ remote \in RemoteReports
  /\ a_pc = "start"
  /\ filters = << >>
  /\ report = << >>
  /\ a_i = 1
  /\ a_fs \in InitialFs
  /\ a_fs0 = a_fs
  /\ a_http = << >>
  /\ a_events = << >>
  /\ a_exit = 0
  /\ a_error = ""

AIdle ==
  /\ argv = NoArgv
  /\ remote = "no rows"
  /\ a_pc = "idle"
  /\ filters = << >>
  /\ report = << >>
  /\ a_i = 1
  /\ a_fs = EmptyFs
  /\ a_fs0 = EmptyFs
  /\ a_http = << >>
  /\ a_events = << >>
  /\ a_exit = 0
  /\ a_error = ""

----------------------------------------------------------------------------
(* ncbi-download.py: the main script                                       *)

\* '.fasta' and '/completed-genomes.txt'
FASTA_EXT     == <<".","f","a","s","t","a">>
MANIFEST_NAME == <<"/","c","o","m","p","l","e","t","e","d","-","g","e","n","o","m","e","s",".","t","x","t">>

\* the records of the searched database: their UIDs, and per UID the Caption
\* esummary gives and the FASTA text efetch gives, as a sequence of lines.
\* UIDs 1 and 3 are two versions of one accession and share its Caption.
Uids == {1, 2, 3}

Caption(uuid) == IF uuid = 2 THEN <<"N","C","_","B">> ELSE <<"N","C","_","A">>

FastaText(uuid) ==
  << <<">">> \o Caption(uuid) \o <<".", IF uuid = 3 THEN "2" ELSE "1">>,
     IF uuid = 1 THEN <<"A","C","G","T">> ELSE IF uuid = 2 THEN <<"G","G","C","C">> ELSE <<"A","C","G","A">> >>

\* '{0}/{1}.fasta'.format(args.outdir, caption)
FastaOutput(outdir, caption) == outdir \o <<SLASH>> \o caption \o FASTA_EXT

\* IsFile with a slip: os.path.isdir in the place of os.path.isfile
IsFile_IsDir(fs, path) == path \in fs.dirs

\* os.path.isfile(path)
IsFile(fs, path) == path \in DOMAIN fs.files

\* open(path, 'w').write(text): the file is created or truncated, and holds text
WriteFile(fs, path, text) ==
  [fs EXCEPT !.files = [f \in DOMAIN @ \cup {path} |-> IF f = path THEN text ELSE @[f]]]

MaxRuns == 2
MaxIds  == 2

\* the ID lists esearch may return: up to MaxIds UIDs, none twice
IdLists ==
  {ids \in UNION {[1..n -> Uids] : n \in 0..MaxIds} :
      \A i, j \in DOMAIN ids : ids[i] = ids[j] => i = j}

NoRun == [ran |-> FALSE, completed |-> FALSE, dry |-> FALSE, idlist |-> << >>]

\* lines 83-102: a run starts (the one before is over): the output directory
\* is made if it is not there, then esearch returns an ID list or raises
StartRun ==
  /\ b_pc \in {"start", "done", "aborted"}
  /\ b_run < MaxRuns
  /\ b_run' = b_run + 1
  /\ b_prev' = IF b_pc = "start" THEN NoRun
               ELSE [ran |-> TRUE, completed |-> b_pc = "done",
                     dry |-> b_dry, idlist |-> b_idlist]
  /\ b_dry' \in BOOLEAN
  /\ b_fs' = [b_fs EXCEPT !.dirs = @ \cup {OUTDIR}]
  /\ b_fs_start' = b_fs
  /\ \E esearch \in {"ok", "error"} :
        IF esearch = "ok"
          THEN b_idlist' \in IdLists /\ b_pc' = "loop"
          ELSE b_idlist' = << >> /\ b_pc' = "aborted"
  /\ b_i' = 1
  /\ accessions' = << >>
  /\ b_efetch' = << >>
  /\ b_res' = << >>
  /\ UNCHANGED <<parse_vars, report_vars, a_vars>>

\* lines 106-114, 123-124: esummary gives the caption, which is appended;
\* under --dry_run or with the file present the ID is finished, else the
\* record is to be fetched; an error of esummary ends the run
ResolveId ==
  /\ b_pc = "loop"
  /\ b_i <= Len(b_idlist)
  /\ \E esummary \in {"ok", "error"} :
        IF esummary = "error"
          THEN /\ b_pc' = "aborted"
               /\ UNCHANGED <<b_i, accessions, b_res>>
          ELSE /\ accessions' = Append(accessions, Caption(b_idlist[b_i]))
               /\ IF b_dry
                    THEN /\ b_i' = b_i + 1
                         /\ UNCHANGED <<b_pc, b_res>>
                  ELSE IF IsFile(b_fs, FastaOutput(OUTDIR, Caption(b_idlist[b_i])))
                    THEN /\ b_i' = b_i + 1
                         /\ b_res' = Append(b_res, "Skipped")
                         /\ UNCHANGED b_pc
                  ELSE /\ b_pc' = "fetch"
                       /\ UNCHANGED <<b_i, b_res>>
  /\ UNCHANGED <<b_run, b_dry, b_idlist, b_fs, b_fs_start, b_efetch, b_prev,
                 parse_vars, report_vars, a_vars>>

\* lines 115-121: efetch, then open(fasta_output, 'w'), then
\* fh.write(efetch.read()).  An error of efetch leaves no file; an error of
\* read leaves the file open() made, empty; an error while writing leaves
\* what was written before it; each ends the run.
FetchRecord ==
  /\ b_pc = "fetch"
  /\ b_efetch' = Append(b_efetch, b_idlist[b_i])
  /\ LET fasta_output == FastaOutput(OUTDIR, Caption(b_idlist[b_i]))
         text         == FastaText(b_idlist[b_i])
     IN  \E outcome \in {"ok", "efetch error", "read error", "write error"} :
            IF outcome = "ok"
              THEN /\ b_fs' = WriteFile(b_fs, fasta_output, text)
                   /\ b_res' = Append(b_res, "Fetched")
                   /\ b_i' = b_i + 1
                   /\ b_pc' = "loop"
            ELSE IF outcome = "efetch error"
              THEN /\ b_pc' = "aborted"
                   /\ UNCHANGED <<b_fs, b_res, b_i>>
            ELSE IF outcome = "read error"
              THEN /\ b_fs' = WriteFile(b_fs, fasta_output, << >>)
                   /\ b_pc' = "aborted"
                   /\ UNCHANGED <<b_res, b_i>>
            ELSE /\ \E n \in 0..(Len(text) - 1) :
                       b_fs' = WriteFile(b_fs, fasta_output, SubSeq(text, 1, n))
                 /\ b_pc' = "aborted"
                 /\ UNCHANGED <<b_res, b_i>>
  /\ UNCHANGED <<b_run, b_dry, b_idlist, accessions, b_fs_start, b_prev,
                 parse_vars, report_vars, a_vars>>

\* lines 126-130: after the loop the manifest is written, unless --dry_run
WriteManifest ==
  /\ b_pc = "loop"
  /\ b_i > Len(b_idlist)
  /\ b_fs' = IF b_dry THEN b_fs
             ELSE WriteFile(b_fs, OUTDIR \o MANIFEST_NAME,
                            <<Join(accessions, <<NL>>)>>)
  /\ b_pc' = "done"
  /\ UNCHANGED <<b_run, b_dry, b_idlist, b_i, accessions, b_fs_start,
                 b_efetch, b_res, b_prev, parse_vars, report_vars, a_vars>>

NextB ==
  \/ StartRun
  \/ ResolveId
  \/ FetchRecord
  \/ WriteManifest

\* OUTPUT before the first run: absent, or there and holding the FASTA files
\* of records fetched before
InitialFastaSets == {{}, {1}, {2}, {1, 2}}

BInit ==
  /\ b_run = 0
  /\ b_pc = "start"
  /\ b_dry = FALSE
  /\ b_idlist = << >>
  /\ b_i = 1
  /\ accessions = << >>
  /\ \/ b_fs = EmptyFs
     \/ \E have \in InitialFastaSets :
           b_fs = [dirs |-> {OUTDIR},
                   files |-> [f \in {FastaOutput(OUTDIR, Caption(u)) : u \in have} |->
                                FastaText(CHOOSE u \in have :
                                             f = FastaOutput(OUTDIR, Caption(u)))]]
  /\ b_fs_start = b_fs
  /\ b_efetch = << >>
  /\ b_res = << >>
  /\ b_prev = NoRun

BIdle ==
  /\ b_run = 0
  /\ b_pc = "idle"
  /\ b_dry = FALSE
  /\ b_idlist = << >>
  /\ b_i = 1
  /\ accessions = << >>
  /\ b_fs = EmptyFs
  /\ b_fs_start = EmptyFs
  /\ b_efetch = << >>
  /\ b_res = << >>
  /\ b_prev = NoRun

----------------------------------------------------------------------------
(* Specifications                                                          *)

InitParse == ParseInit /\ ReportIdle /\ AIdle /\ BIdle

SpecParse == InitParse /\ [][CallParseFilters]_vars

InitReport == ReportInit /\ ParseIdle /\ AIdle /\ BIdle

SpecReport == InitReport /\ [][CallDownloadReport]_vars

InitA == AInit /\ ParseIdle /\ ReportIdle /\ BIdle

SpecA == InitA /\ [][NextA]_vars

InitB == BInit /\ ParseIdle /\ ReportIdle /\ AIdle

SpecB == InitB /\ [][NextB]_vars

----------------------------------------------------------------------------
(* What the claims about parse_filters speak of, read off the input text   *)

Tokens(s) == Split(s, SEMI)

EqCount(f) == Cardinality({i \in 1..Len(f) : f[i] = EQ})

FirstEq(f) == CHOOSE i \in 1..Len(f) : f[i] = EQ /\ \A j \in 1..(i - 1) : f[j] # EQ

BeforeFirstEq(f) == SubSeq(f, 1, FirstEq(f) - 1)

AfterFirstEq(f) == SubSeq(f, FirstEq(f) + 1, Len(f))

\* the key a token is recorded under
TokenKey(f) == IF EqCount(f) = 0 THEN f ELSE BeforeFirstEq(f)

\* every token is COLUMN=VALUE with one "=" and a Recognized Column
WellFormed(s) ==
  \A i \in DOMAIN Tokens(s) :
     EqCount(Tokens(s)[i]) = 1 /\ InFilterColumns(BeforeFirstEq(Tokens(s)[i]))

\* the token lacks "=" or names a column that is not recognized
Flagged(f) == EqCount(f) = 0 \/ ~InFilterColumns(BeforeFirstEq(f))

\* the key/value pairs of the tokens, in input order
Pairs(s) ==
  [i \in DOMAIN Tokens(s) |->
     [k |-> BeforeFirstEq(Tokens(s)[i]), v |-> AfterFirstEq(Tokens(s)[i])]]

DistinctKeys(pairs) ==
  \A i, j \in DOMAIN pairs : pairs[i].k = pairs[j].k => i = j

\* one entry per key, placed where the key first occurs, holding the value
\* of the key's last occurrence
LastWins(pairs) ==
  LET firsts == {i \in DOMAIN pairs : \A j \in 1..(i - 1) : pairs[j].k # pairs[i].k}
      nth(n) == CHOOSE i \in firsts : Cardinality({j \in firsts : j < i}) = n - 1
      last(key) == CHOOSE i \in DOMAIN pairs :
                      /\ pairs[i].k = key
                      /\ \A j \in DOMAIN pairs : pairs[j].k = key => j <= i
  IN  [n \in 1..Cardinality(firsts) |->
         [k |-> pairs[nth(n)].k, v |-> pairs[last(pairs[nth(n)].k)].v]]

\* the value ends with, or is, one of the two error texts
HasErrorMarker(value) ==
  \/ value = ERR_NO_VALUE
  \/ /\ Len(value) >= Len(ERR_COLUMN_SUFFIX)
     /\ SubSeq(value, Len(value) - Len(ERR_COLUMN_SUFFIX) + 1, Len(value))
          = ERR_COLUMN_SUFFIX

ParseOver == parse_pc \in {"returned", "raised"}

----------------------------------------------------------------------------
(* Claims about parse_filters (specification SpecParse)                       *)

\* C2, as stated: for every filter string whose tokens all hold exactly one
\* "=" and a Recognized Column, parse_filters returns invalid=False and a
\* mapping holding exactly the tokens' key/value pairs in input order, also
\* when a column occurs in more than one token.
C2_ExactPairsInOrder ==
  (ParseOver /\ WellFormed(input_filters)) =>
     /\ parse_pc = "returned"
     /\ parse_out.invalid = FALSE
     /\ parse_out.parsed_filter = Pairs(input_filters)

\* C2, amended: for every such filter string parse_filters returns
\* invalid=False and a mapping with one entry per distinct column, placed
\* where the column first occurs and holding the value of its last token;
\* when the columns are pairwise distinct these are exactly the tokens'
\* key/value pairs in input order.
C2_LastValuePerColumn ==
  (ParseOver /\ WellFormed(input_filters)) =>
     /\ parse_pc = "returned"
     /\ parse_out.invalid = FALSE
     /\ parse_out.parsed_filter = LastWins(Pairs(input_filters))
     /\ DistinctKeys(Pairs(input_filters)) =>
           parse_out.parsed_filter = Pairs(input_filters)

\* C2 witness: a returned call on three well-formed tokens, two of them on
\* the same column with different values.
C2_Witness ==
  /\ parse_pc = "returned"
  /\ WellFormed(input_filters)
  /\ Len(Tokens(input_filters)) = 3
  /\ Len(parse_out.parsed_filter) = 2

\* C3, as stated: whenever a token lacks "=" or uses a column that is not
\* recognized, the returned flag is invalid=True and the entry of that
\* token's key carries an error marker, whatever the other tokens are.
C3_FlaggedEntryMarked ==
  parse_pc = "returned" =>
     \A i \in DOMAIN Tokens(input_filters) :
        Flagged(Tokens(input_filters)[i]) =>
           /\ parse_out.invalid = TRUE
           /\ TokenKey(Tokens(input_filters)[i]) \in Keys(parse_out.parsed_filter)
           /\ HasErrorMarker(Get(parse_out.parsed_filter,
                                 TokenKey(Tokens(input_filters)[i])))

\* C9, as stated: every token that contains "=" is split at its first "="
\* only: its key is the text before it, the recorded value is built from
\* all the text after it, and parse_filters returns without an exception.
C9_SplitAtFirstEq ==
  (ParseOver /\ \E i \in DOMAIN Tokens(input_filters) :
                   EqCount(Tokens(input_filters)[i]) > 0) =>
     /\ parse_pc = "returned"
     /\ \A i \in DOMAIN Tokens(input_filters) :
          LET f == Tokens(input_filters)[i]
          IN  (/\ EqCount(f) > 0
               /\ \A j \in DOMAIN Tokens(input_filters) :
                     j > i => TokenKey(Tokens(input_filters)[j]) # TokenKey(f))
              => /\ BeforeFirstEq(f) \in Keys(parse_out.parsed_filter)
                 /\ Get(parse_out.parsed_filter, BeforeFirstEq(f))
                      \in {AfterFirstEq(f), AfterFirstEq(f) \o ERR_COLUMN_SUFFIX}

----------------------------------------------------------------------------
(* What the claim about download_report speaks of, read off the report     *)

Lines(text) == Split(text, NL)

IsHeader(line) == StartsWith(line, HEADER_PREFIX)

\* a data row: a non-empty line after the header
IsDataLine(text, i) ==
  /\ \E h \in 1..(i - 1) : IsHeader(Lines(text)[h])
  /\ Len(Lines(text)[i]) > 0
  /\ ~IsHeader(Lines(text)[i])

\* the row of data line i: its fields under the names of the header above it
RowOf(text, i) ==
  LET h == CHOOSE h \in 1..(i - 1) :
              /\ IsHeader(Lines(text)[h])
              /\ \A g \in 1..(i - 1) : IsHeader(Lines(text)[g]) => g <= h
  IN  Zip(Split(LStrip(Lines(text)[h], {"#", " "}), TAB), Split(Lines(text)[i], TAB))

\* a row passes the entry (column, value)
RowPassesEntry(row, column, value) ==
  \/ column = assembly_level /\ value = V_all
  \/ column \in DOMAIN row /\ Contains(Lower(row[column]), Lower(value))

RowPasses(row, cf) == \A e \in DOMAIN cf : RowPassesEntry(row, cf[e].k, cf[e].v)

\* the passing data rows, in their order of appearance
PassingRows(text, cf) ==
  LET idx == {i \in DOMAIN Lines(text) :
                 IsDataLine(text, i) /\ RowPasses(RowOf(text, i), cf)}
      nth(n) == CHOOSE i \in idx : Cardinality({j \in idx : j < i}) = n - 1
  IN  [n \in 1..Cardinality(idx) |-> RowOf(text, nth(n))]

\* some data row does not hold a column the filter names
SomeRowLacksColumn(text, cf) ==
  \E i \in DOMAIN Lines(text) :
     /\ IsDataLine(text, i)
     /\ \E e \in DOMAIN cf : cf[e].k \notin DOMAIN RowOf(text, i)

ReportOver == report_pc \in {"returned", "raised"}

----------------------------------------------------------------------------
(* Claim about download_report (specification SpecReport)                     *)

\* C1, as stated: for every report text and every filter mapping,
\* download_report returns exactly the data rows that pass every filter
\* entry, in their order of appearance; a row passes (column, value) iff
\* lower(value) is a substring of lower(row[column]), or column is
\* assembly_level and value is the literal 'all'.
C1_ExactlyPassingRows ==
  ReportOver =>
     /\ report_pc = "returned"
     /\ report_out = PassingRows(report_text, column_filters)

\* C1, the part the code keeps: when every data row holds every column the
\* filter names, download_report returns exactly the passing rows in order.
C1_WhenRowsHoldFilterColumns ==
  (ReportOver /\ ~SomeRowLacksColumn(report_text, column_filters)) =>
     /\ report_pc = "returned"
     /\ report_out = PassingRows(report_text, column_filters)

----------------------------------------------------------------------------
(* What the claims about Program A speak of                                *)

\* parse_filters flags the filter string: it returns, with invalid=True
FlaggedInvalid(s) ==
  /\ \A i \in DOMAIN Tokens(s) : EqCount(Tokens(s)[i]) <= 1
  /\ \E i \in DOMAIN Tokens(s) : Flagged(Tokens(s)[i])

RsyncRuns == {k \in DOMAIN a_events : a_events[k].op = "rsync"}
Sleeps    == {k \in DOMAIN a_events : a_events[k].op = "sleep"}

\* nothing was done: no GET, no rsync, the file system as the run found it
NoActionTaken == a_http = << >> /\ RsyncRuns = {} /\ a_fs = a_fs0

\* the run got as far as handing the filter to download_report
FilterHanded == a_pc \in {"loop", "sleep"} \/ (a_pc = "exited" /\ Len(a_http) > 0
                                                /\ ~argv.report_readme)

\* the value FILTER gives to assembly_level, if it gives one
UserLevelGiven == assembly_level \in Keys(LastWins(Pairs(argv.filter)))
UserLevel      == Get(LastWins(Pairs(argv.filter)), assembly_level)

\* a run that is to filter the report and go through its rows
FullRun ==
  /\ argv.given /\ ~argv.report_readme /\ ~argv.filter_columns
  /\ ~argv.validate_filter
  /\ WellFormed(argv.filter)

SummaryPath == argv.outdir \o SUMMARY_NAME

SummaryWritten ==
  /\ SummaryPath \in DOMAIN a_fs.files
  /\ a_fs.files[SummaryPath] = SummaryText(report)

\* the k-th event is what the loop owes row (k+1) \div 2: its rsync run from
\* the rsync:// form of its ftp_path into <outdir>/<accession>, then the sleep
EventInOrder(k) ==
  LET row == report[(k + 1) \div 2]
  IN  IF k % 2 = 1
        THEN /\ a_events[k].op = "rsync"
             /\ a_events[k].src = Replace(row[ftp_path], FTP_SCHEME, RSYNC_SCHEME)
             /\ a_events[k].dst = argv.outdir \o <<SLASH>> \o row[assembly_accession]
        ELSE a_events[k] = [op |-> "sleep", secs |-> argv.delay]

----------------------------------------------------------------------------
(* Claims about Program A (specification SpecA)                               *)

\* C4, as stated: a run started with a FILTER that parse_filters flags as
\* invalid ends, under any combination of the optional flags, with exit
\* code 1 and nothing done: no HTTP request, no mirror run, no file or
\* directory created.
C4_InvalidFilterExits1 ==
  (a_pc = "exited" /\ argv.given /\ FlaggedInvalid(argv.filter)) =>
     a_exit = 1 /\ NoActionTaken

\* C4, amended: a run started with a FILTER that parse_filters flags as
\* invalid and with neither --report_readme nor --filter_columns ends, under
\* any combination of --validate_filter and --dry_run, with exit code 1 and
\* nothing done.  With --report_readme it sends the one GET of the README
\* and exits 0; with --filter_columns alone it exits 0 with nothing done.
C4_InvalidFilterExits1UnlessInfoFlag ==
  (a_pc = "exited" /\ argv.given /\ FlaggedInvalid(argv.filter)) =>
     /\ (~argv.report_readme /\ ~argv.filter_columns) => (a_exit = 1 /\ NoActionTaken)
     /\ argv.report_readme =>
           /\ a_exit = 0
           /\ a_http = <<"README_assembly_summary.txt">>
           /\ RsyncRuns = {} /\ a_fs = a_fs0
     /\ (~argv.report_readme /\ argv.filter_columns) => (a_exit = 0 /\ NoActionTaken)

\* C4 witness: a run with an invalid filter, --validate_filter and
\* --dry_run that has exited with code 1.
C4_Witness ==
  /\ a_pc = "exited" /\ a_exit = 1
  /\ FlaggedInvalid(argv.filter)
  /\ argv.validate_filter /\ argv.dry_run
  /\ ~argv.report_readme /\ ~argv.filter_columns

\* C5, as stated: the filter handed to download_report always holds
\* assembly_level, with the value FILTER gives it when FILTER gives one and
\* the --assembly_level value (default 'complete') only otherwise; so FILTER
\* "taxid=1280;assembly_level=all" without --assembly_level retains every
\* row whose taxid contains 1280, at any assembly level, in report order.
C5_FilterLevelWins ==
  FilterHanded =>
     /\ assembly_level \in Keys(filters)
     /\ Get(filters, assembly_level) =
           IF UserLevelGiven THEN UserLevel ELSE ArgsAssemblyLevel(argv)
     /\ (/\ a_pc \in {"loop", "sleep"}
         /\ UserLevelGiven /\ UserLevel = V_all
         /\ argv.assembly_level = << >>)
        => report = PassingRows(RemoteText(remote), LastWins(Pairs(argv.filter)))

\* C6, as stated: a run with --dry_run and a valid filter runs no mirror and
\* no sleep and ends having written <OUTPUT>/assembly_summary.txt (the
\* header and one line per retained row), whatever the file system held
\* before, also when OUTPUT did not exist.
C6_DryRunWritesSummary ==
  (a_pc = "exited" /\ FullRun /\ argv.dry_run) =>
     /\ RsyncRuns = {} /\ Sleeps = {}
     /\ SummaryWritten

----------------------------------------------------------------------------
(* What the claims about Program B speak of                                *)

FastaPaths == {FastaOutput(OUTDIR, Caption(u)) : u \in Uids}

\* the <accession>.fasta files of a file system, with what they hold
FastaFiles(fs) == [f \in DOMAIN fs.files \cap FastaPaths |-> fs.files[f]]

\* the current run downloads (no --dry_run), and so did the run before it,
\* which completed, on the same search results
RerunAfterCompletedRun ==
  /\ b_pc \in {"loop", "fetch", "done", "aborted"}
  /\ ~b_dry
  /\ b_prev.ran /\ b_prev.completed /\ ~b_prev.dry
  /\ b_prev.idlist = b_idlist

----------------------------------------------------------------------------
(* Claims about Program B (specification SpecB)                               *)

\* C8: when the download loop is run again, without --dry_run, on the same
\* output directory and the same search results after a run that completed,
\* every ID resolves to Skipped, efetch is never called, and no
\* <accession>.fasta file is created, overwritten or changed.
C8_RerunSkipsEverything ==
  RerunAfterCompletedRun =>
     /\ b_efetch = << >>
     /\ b_pc # "fetch"
     /\ \A k \in DOMAIN b_res : b_res[k] = "Skipped"
     /\ FastaFiles(b_fs) = FastaFiles(b_fs_start)
     /\ b_pc = "done" => Len(b_res) = Len(b_idlist)

\* C8 witness: a second download run over two IDs, after a completed first
\* one that fetched a record, is done with both IDs skipped.
C8_Witness ==
  /\ RerunAfterCompletedRun
  /\ b_pc = "done"
  /\ b_run = 2
  /\ Len(b_idlist) = 2
  /\ b_res = <<"Skipped", "Skipped">>

\* C10, as stated: after any sequence of runs on one output directory, runs
\* aborted by an error while fetching or writing a record included, every
\* <accession>.fasta file that exists holds the complete FASTA text of its
\* record, so a file a later run skips is never empty or partial.
C10_FastaFilesComplete ==
  \A f \in DOMAIN FastaFiles(b_fs) :
     \E u \in Uids : f = FastaOutput(OUTDIR, Caption(u)) /\ b_fs.files[f] = FastaText(u)

====
